---------------------------- MODULE Spec2Model ----------------------------
(***************************************************************************)
(* A model of ColorDescriptors.py: ColorSolid (a colour kept both as       *)
(* RGB[W] and as HSI, with its hex descriptor codec), the conversion       *)
(* functions between the two colour spaces, the two linear interpolation   *)
(* functions, and ColorGradient (nodes, steps, interpMode and the stored    *)
(* gradient).                                                              *)
(*                                                                         *)
(* Numbers.  Python floats are modelled as fixed-point integers counting   *)
(* 1/U: the real 0.5 is U \div 2, the channel value 255 is 255 * U.        *)
(* Sums, differences and comparisons are exact; products and quotients are *)
(* rounded to the nearest 1/U; cos, acos, atan and sqrt are computed from a *)
(* table of cos at whole degrees.  Strings are sequences of one-character  *)
(* strings.                                                                *)
(***************************************************************************)
EXTENDS Integers, Sequences, FiniteSets, TLC

(***************************************************************************)
(* Fixed-point arithmetic                                                  *)
(***************************************************************************)
U == 10 * 1000

\* Python's None, for a field that holds no number.
None == 0 - 1

FX(n) == n * U

Abs(x) == IF x < 0 THEN 0 - x ELSE x

Min2(a, b) == IF a < b THEN a ELSE b

Max2(a, b) == IF a > b THEN a ELSE b

\* a / b for b > 0, to the nearest integer (halves away from zero).
DivNear(a, b) ==
    IF a >= 0 THEN (2 * a + b) \div (2 * b)
    ELSE 0 - ((2 * (0 - a) + b) \div (2 * b))

\* The product of two fixed-point numbers, a * b / U to the nearest 1/U.
\* Each factor is split into its whole part and its fraction, so that no
\* intermediate product is larger than the result times U.
Mul(a, b) ==
    LET s  == IF (a < 0) = (b < 0) THEN 1 ELSE 0 - 1
        qa == Abs(a) \div U
        ra == Abs(a) % U
        qb == Abs(b) \div U
        rb == Abs(b) % U
    IN  s * (qa * qb * U + qa * rb + ra * qb + DivNear(ra * rb, U))

\* The quotient by long division: acc holds the digits so far, rem the
\* remainder, n the number of digits still to come; the last digit is
\* rounded.
RECURSIVE LongDiv(_, _, _, _)
LongDiv(acc, rem, c, n) ==
    IF n = 0 THEN (IF 2 * rem >= c THEN acc + 1 ELSE acc)
    ELSE LongDiv(10 * acc + ((10 * rem) \div c), (10 * rem) % c, c, n - 1)

\* The quotient of two fixed-point numbers, a * U / b to the nearest 1/U:
\* the whole part and the four decimal digits that make 1/U.
Div(a, b) ==
    (IF (a < 0) = (b < 0) THEN 1 ELSE 0 - 1)
        * LongDiv(Abs(a) \div Abs(b), Abs(a) % Abs(b), Abs(b), 4)

\* The largest r with r * r <= n: the search halves [lo, hi].
RECURSIVE ISqrtIn(_, _, _)
ISqrtIn(n, lo, hi) ==
    IF lo >= hi THEN lo
    ELSE LET mid == (lo + hi + 1) \div 2
         IN  IF mid * mid <= n THEN ISqrtIn(n, mid, hi)
             ELSE ISqrtIn(n, lo, mid - 1)

\* math.sqrt of a fixed-point number x >= 0: sqrt(x / U) * U = sqrt(x * U),
\* with x scaled by as much of U as fits.
sqrt(x) ==
    IF x <= 200000 THEN ISqrtIn(x * U, 0, 46340)
    ELSE IF x <= 20000000 THEN ISqrtIn(x * 100, 0, 46340) * 10
    ELSE ISqrtIn(x, 0, 46340) * 100

\* cos at 0, 1, ..., 90 degrees, in 1/U.
CosTab ==
    << 10000, 9998, 9994, 9986, 9976, 9962, 9945, 9925, 9903, 9877, 9848, 9816, 9781,
       9744, 9703, 9659, 9613, 9563, 9511, 9455, 9397, 9336, 9272, 9205, 9135, 9063,
       8988, 8910, 8829, 8746, 8660, 8572, 8480, 8387, 8290, 8192, 8090, 7986, 7880,
       7771, 7660, 7547, 7431, 7314, 7193, 7071, 6947, 6820, 6691, 6561, 6428, 6293,
       6157, 6018, 5878, 5736, 5592, 5446, 5299, 5150, 5000, 4848, 4695, 4540, 4384,
       4226, 4067, 3907, 3746, 3584, 3420, 3256, 3090, 2924, 2756, 2588, 2419, 2250,
       2079, 1908, 1736, 1564, 1392, 1219, 1045, 872, 698, 523, 349, 175, 0 >>

\* cos at a whole number of degrees d in 0..360: the sign of the quadrant
\* times the table entry of the angle folded into 0..90.
CosWhole(d) ==
    (IF d <= 90 \/ d > 270 THEN 1 ELSE 0 - 1)
        * CosTab[IF d <= 90 THEN d + 1
                 ELSE IF d <= 180 THEN 180 - d + 1
                 ELSE IF d <= 270 THEN d - 180 + 1
                 ELSE 360 - d + 1]

\* cos at d whole degrees and the fraction f of a degree: linear between the
\* two neighbouring whole degrees.
CosBetween(d, f) ==
    CosWhole(d) + DivNear((CosWhole(Min2(d + 1, 360)) - CosWhole(d)) * f, U)

\* math.cos of an angle in fixed-point degrees, -360 <= deg/U <= 360.
cos(deg) == CosBetween(Abs(deg) \div U, Abs(deg) % U)

\* The angle between d and d + 1 whole degrees whose cos is x, linear
\* between the two.
AcosBetween(x, d) ==
    FX(d) + DivNear((CosWhole(d) - x) * U, CosWhole(d) - CosWhole(d + 1))

\* math.acos in fixed-point degrees, for x in [-1, 1]: the whole degree d
\* with cos(d) >= x > cos(d + 1), then linear between the two.
acos(x) ==
    IF x >= U THEN 0
    ELSE IF x <= 0 - U THEN FX(180)
    ELSE AcosBetween(x, CHOOSE k \in 0..179 : CosWhole(k) >= x /\ CosWhole(k + 1) < x)

\* tan at a whole number of degrees d in 0..89, in 1/U.
TanWhole(d) == DivNear(CosWhole(90 - d) * U, CosWhole(d))

\* The angle between d and d + 1 whole degrees whose tan is q, linear
\* between the two.
AtanBetween(q, d) ==
    FX(d) + Div(q - TanWhole(d), TanWhole(d + 1) - TanWhole(d))

\* math.atan in fixed-point degrees, for a fixed-point q >= 0; beyond
\* tan(89 degrees) the angle is 90 minus (1 / q) radians.
atan(q) ==
    IF q >= 10000000 THEN FX(90)
    ELSE IF q >= TanWhole(89) THEN FX(90) - Div(572958, q)
    ELSE AtanBetween(q, CHOOSE k \in 0..88 : TanWhole(k) <= q /\ q < TanWhole(k + 1))

\* A rounding that drops the fraction, as int() would.
round_truncating(x) == x \div U

\* round(): to the nearest integer, halves to the even neighbour.
round(x) ==
    LET q == x \div U
        r == x % U
    IN  IF 2 * r < U THEN q
        ELSE IF 2 * r > U THEN q + 1
        ELSE IF q % 2 = 0 THEN q ELSE q + 1

(***************************************************************************)
(* Colour space conversion (static methods of ColorSolid).  Channels are   *)
(* fixed-point numbers in [0, 255], hue is in fixed-point degrees,         *)
(* saturation and intensity are fixed-point numbers.                       *)
(***************************************************************************)

\* The acos argument shared by rgb2hsi and rgbw2hsi, for r, g, b in [0, 1]:
\* (r-g + r-b)/2 * sqrt((r-g)*(r-g) + (r-b)*(g-b)).
HueArg(r, g, b) ==
    Mul(DivNear((r - g) + (r - b), 2),
        sqrt(Max2(0, Mul(r - g, r - g) + Mul(r - b, g - b))))

\* hue = 2*pi - hue when blue is larger than green.
FlipHue(hue, flip) == IF flip THEN FX(360) - hue ELSE hue

\* saturation = 0 if intensity == 0, else 1.0 - minimum/intensity
RgbSaturation(minimum, intensity) ==
    IF intensity = 0 THEN 0 ELSE U - Div(minimum, intensity)

\* rgb2hsi after the division by 255.0: r, g, b in [0, 1].
UnitRgb2Hsi(r, g, b) ==
    << IF Min2(r, Min2(g, b)) = Max2(r, Max2(g, b)) THEN 0
       ELSE FlipHue(acos(HueArg(r, g, b)), b > g),
       RgbSaturation(Min2(r, Min2(g, b)), DivNear(r + g + b, 3)),
       r + g + b >>

rgb2hsi(red, green, blue) ==
    UnitRgb2Hsi(Div(red, FX(255)), Div(green, FX(255)), Div(blue, FX(255)))

\* 2 * atan of (2*sqrt(p*p - p*q + q*q) - 2*q + p) / (sqrt(3) * p) in
\* degrees, for p and q in [0, 1]; the quotient is infinite for p = 0.
UnitAtanHue(p, q) ==
    IF Mul(17321, p) = 0 THEN FX(180)
    ELSE 2 * atan(Div(Max2(0, 2 * sqrt(Max2(0, Mul(p, p) - Mul(p, q) + Mul(q, q)))
                                  - 2 * q + p),
                      Mul(17321, p)))

\* The hue of rgbw2hsi when exactly one channel is zero.  The quotient does
\* not change when p and q are both divided by the larger of the two, which
\* keeps the fixed-point operands in [0, 1].
AtanHue(pRaw, qRaw) ==
    UnitAtanHue(Div(pRaw, Max2(pRaw, qRaw)), Div(qRaw, Max2(pRaw, qRaw)))

\* The two channels the one-zero case of rgbw2hsi computes with, and the
\* angle it adds: 2/3 pi when red is zero, 4/3 pi when green is zero.
OneZeroCase(red, green, blue) ==
    IF red = 0 THEN << blue, green, FX(120) >>
    ELSE IF green = 0 THEN << red, blue, FX(240) >>
    ELSE << green, red, 0 >>

OneZeroHue(case) == AtanHue(case[1], case[2]) + case[3]

\* The hue rgbw2hsi returns for a white that is not zero.
RgbwHue(red, green, blue) ==
    IF red = 0 /\ green = 0 /\ blue = 0 THEN 0
    ELSE IF red = 0 /\ green = 0 THEN FX(240)
    ELSE IF green = 0 /\ blue = 0 THEN 0
    ELSE IF blue = 0 /\ red = 0 THEN FX(120)
    ELSE IF red = 0 \/ green = 0 \/ blue = 0
    THEN OneZeroHue(OneZeroCase(red, green, blue))
    ELSE FlipHue(acos(HueArg(Div(red, FX(255)), Div(green, FX(255)),
                             Div(blue, FX(255)))),
                 blue > green)

\* saturation * (255 - white)/255
WhiteScaled(saturation, white) == Div(Mul(saturation, FX(255) - white), FX(255))

\* The saturation rgbw2hsi returns for a white that is not zero: based on
\* the amount of white when a channel is zero, else the rgb saturation
\* scaled with the white value.
RgbwSaturation(red, green, blue, white) ==
    IF red = 0 \/ green = 0 \/ blue = 0
    THEN Div(red + green + blue, red + green + blue + white)
    ELSE WhiteScaled(
             U - Div(Min2(Div(red, FX(255)), Min2(Div(green, FX(255)), Div(blue, FX(255)))),
                     Div(red + green + blue, FX(255 * 3))),
             white)

\* rgbw2hsi after the inputs that are None were set to zero.
ZeroedRgbw2Hsi(red, green, blue, white) ==
    IF white = 0 THEN rgb2hsi(red, green, blue)
    ELSE << RgbwHue(red, green, blue),
            RgbwSaturation(red, green, blue, white),
            Div(red + green + blue + white, FX(255)) >>

NoneToZero(v) == IF v = None THEN 0 ELSE v

rgbw2hsi(red, green, blue, white) ==
    ZeroedRgbw2Hsi(NoneToZero(red), NoneToZero(green), NoneToZero(blue),
                   NoneToZero(white))

\* (v if v < hi else hi) if v > 0 else 0
Clamp(v, hi) == IF v > 0 THEN (IF v < hi THEN v ELSE hi) ELSE 0

\* cos(hue) / cos(pi/3 - hue), for a hue inside its 120 degree sector.
CosRatio(h) == Div(cos(h), cos(FX(60) - h))

\* The hue counted from the start of its third of the circle.
SectorHue(hue) ==
    IF hue < FX(120) THEN hue
    ELSE IF hue < FX(240) THEN hue - FX(120)
    ELSE hue - FX(240)

\* r, g, b of the three branches: p and q are the two channels computed with
\* the cos quotient, a is the third channel.
BySector(hue, p, q, a) ==
    IF hue < FX(120) THEN << p, q, a >>
    ELSE IF hue < FX(240) THEN << a, p, q >>
    ELSE << q, a, p >>

\* hsi2rgbw with si3 = saturation*intensity/3, ratio the cos quotient and w
\* the white before it is clamped.
RgbwChannels(hue, si3, ratio, w) ==
    BySector(hue, Clamp(Mul(si3, U + ratio) * 255, FX(255)),
                  Clamp(Mul(si3, U + (U - ratio)) * 255, FX(255)), 0)
        \o << Clamp(w, FX(255)) >>

\* hue is cycled around to 0-360 degrees, saturation is clamped to [0, 1]
\* and intensity to [0, 4].
hsi2rgbw(hue, saturation, intensity) ==
    RgbwChannels(hue % FX(360),
                 DivNear(Mul(Clamp(saturation, U), Clamp(intensity, 4 * U)), 3),
                 CosRatio(SectorHue(hue % FX(360))),
                 Mul(U - Clamp(saturation, U), Clamp(intensity, 4 * U)) * 255)

\* hsi2rgb with si3 = saturation*intensity/3, ratio the cos quotient and a
\* the channel intensity/3 * (1-saturation) * 255.
RgbChannels(hue, saturation, si3, ratio, a) ==
    BySector(hue, Clamp(Mul(si3, U + Mul(saturation, ratio)) * 255, FX(255)),
                  Clamp(Mul(si3, U + Mul(saturation, U - ratio)) * 255, FX(255)),
                  Clamp(a, FX(255)))

\* hue is cycled around to 0-360 degrees, saturation is clamped to [0, 1]
\* and intensity to [0, 3].
hsi2rgb(hue, saturation, intensity) ==
    RgbChannels(hue % FX(360), Clamp(saturation, U),
                DivNear(Mul(Clamp(saturation, U), Clamp(intensity, 3 * U)), 3),
                CosRatio(SectorHue(hue % FX(360))),
                Mul(DivNear(Clamp(intensity, 3 * U), 3), U - Clamp(saturation, U)) * 255)

(***************************************************************************)
(* ColorSolid: the object is a record of its private attributes.           *)
(***************************************************************************)

\* The defaults of ColorSolid.__init__: hue=0, saturation=1.0, intensity=1.0,
\* enableWhite=True.
DefaultHue == 0

DefaultSaturation == U

DefaultIntensity == U

DefaultEnableWhite == TRUE

\* What a call returns when it returns None where an object is expected.
NoneObj == [none |-> TRUE]

\* The else branch of __init__ prints that the object is not configured.
InitPrints(red, green, blue, hue, saturation, intensity) ==
    /\ ~(red /= None /\ green /= None /\ blue /= None)
    /\ ~(hue /= None /\ saturation /= None /\ intensity /= None)

\* The object after the pre-allocation of the private variables.
Unconfigured(enableWhite) ==
    [_red |-> None, _green |-> None, _blue |-> None, _white |-> None,
     _hue |-> None, _saturation |-> None, _intensity |-> None,
     _enableWhite |-> enableWhite, _inputType |-> "None"]

\* The RGB[W] input branch of __init__, hsi being what the conversion gave.
FromRgb(red, green, blue, white, enableWhite, hsi) ==
    [_red |-> red, _green |-> green, _blue |-> blue,
     _white |-> IF enableWhite THEN white ELSE None,
     _hue |-> hsi[1], _saturation |-> hsi[2], _intensity |-> hsi[3],
     _enableWhite |-> enableWhite,
     _inputType |-> IF enableWhite THEN "rgbw" ELSE "rgb"]

\* The HSI input branch of __init__, rgbw being what the conversion gave and
\* the pre-allocated None where it gave no white.
FromHsi(hue, saturation, intensity, enableWhite, rgbw) ==
    [_red |-> rgbw[1], _green |-> rgbw[2], _blue |-> rgbw[3], _white |-> rgbw[4],
     _hue |-> hue, _saturation |-> saturation, _intensity |-> intensity,
     _enableWhite |-> enableWhite, _inputType |-> "hsi"]

ColorSolid(red, green, blue, white, hue, saturation, intensity, enableWhite) ==
    IF red /= None /\ green /= None /\ blue /= None THEN
        FromRgb(red, green, blue, white, enableWhite,
                IF enableWhite THEN rgbw2hsi(red, green, blue, white)
                ELSE rgb2hsi(red, green, blue))
    ELSE IF hue /= None /\ saturation /= None /\ intensity /= None THEN
        FromHsi(hue, saturation, intensity, enableWhite,
                IF ~enableWhite THEN hsi2rgb(hue, saturation, intensity) \o << None >>
                ELSE hsi2rgbw(hue, saturation, intensity))
    ELSE Unconfigured(enableWhite)

\* A getter that returns the stored value whatever enableWhite is.
white_unguarded(self) == self._white

\* The white property: None unless the white LED is enabled.
white(self) == IF self._enableWhite = TRUE THEN self._white ELSE None

\* The branch copy takes: "rgb", "rgbw", "hsi", or "None" when it falls off
\* the end.  forceMode is "None" when it is not passed.
CopyBranch(self, forceMode) ==
    IF (forceMode /= "None" /\ forceMode = "rgb") \/ self._inputType = "rgb" THEN "rgb"
    ELSE IF (forceMode /= "None" /\ forceMode = "rgbw") \/ self._inputType = "rgbw" THEN "rgbw"
    ELSE IF (forceMode /= "None" /\ forceMode = "hsi") \/ self._inputType = "hsi" THEN "hsi"
    ELSE "None"

\* The constructor call of a branch of copy: red, green, blue (and white)
\* are passed in the rgb (rgbw) branch, hue, saturation and intensity in the
\* hsi branch; the constructor's defaults stand for the rest, enableWhite
\* among them.
CopyAs(self, branch) ==
    IF branch = "None" THEN NoneObj
    ELSE ColorSolid(IF branch = "hsi" THEN None ELSE self._red,
                    IF branch = "hsi" THEN None ELSE self._green,
                    IF branch = "hsi" THEN None ELSE self._blue,
                    IF branch = "rgbw" THEN white(self) ELSE None,
                    IF branch = "hsi" THEN self._hue ELSE DefaultHue,
                    IF branch = "hsi" THEN self._saturation ELSE DefaultSaturation,
                    IF branch = "hsi" THEN self._intensity ELSE DefaultIntensity,
                    DefaultEnableWhite)

copy(self, forceMode) == CopyAs(self, CopyBranch(self, forceMode))

(***************************************************************************)
(* The property setters.  Each gives the object after the call, the        *)
(* exception the call raised ("None" when it returned) and whether it      *)
(* printed a warning.  An exception leaves the assignments made before it. *)
(***************************************************************************)
Returned(self) == [self |-> self, exc |-> "None", printed |-> FALSE]

Raised(self, exc) == [self |-> self, exc |-> exc, printed |-> FALSE]

\* self._hue, self._saturation, self._intensity = hsi
AssignHsi(self, hsi) ==
    [self EXCEPT !._hue = hsi[1], !._saturation = hsi[2], !._intensity = hsi[3]]

\* self._red, self._green, self._blue = rgb
AssignRgb(self, rgb) ==
    [self EXCEPT !._red = rgb[1], !._green = rgb[2], !._blue = rgb[3]]

\* self._red, self._green, self._blue, self._white = rgbw
AssignRgbw(self, rgbw) ==
    [self EXCEPT !._red = rgbw[1], !._green = rgbw[2], !._blue = rgbw[3],
                 !._white = rgbw[4]]

\* The tail shared by the red, green and blue setters.  rgb2hsi divides its
\* arguments, which raises TypeError for None.
RgbSync(self) ==
    IF self._enableWhite THEN
        Returned(AssignHsi([self EXCEPT !._inputType = "rgbw"],
                           rgbw2hsi(self._red, self._green, self._blue, white(self))))
    ELSE IF self._red = None \/ self._green = None \/ self._blue = None THEN
        Raised([self EXCEPT !._inputType = "rgb"], "TypeError")
    ELSE
        Returned(AssignHsi([self EXCEPT !._inputType = "rgb"],
                           rgb2hsi(self._red, self._green, self._blue)))

set_red(self, valIn) == RgbSync([self EXCEPT !._red = valIn])

set_green(self, valIn) == RgbSync([self EXCEPT !._green = valIn])

set_blue(self, valIn) == RgbSync([self EXCEPT !._blue = valIn])

\* The white setter past its guard: the assignments and the conversion.
WhiteSync(self) ==
    Returned(AssignHsi(self, rgbw2hsi(self._red, self._green, self._blue, white(self))))

set_white(self, valIn) ==
    IF self._enableWhite = FALSE /\ valIn /= None THEN
        [self |-> self, exc |-> "None", printed |-> TRUE]
    ELSE WhiteSync([self EXCEPT !._white = valIn, !._inputType = "rgbw"])

\* The tail shared by the hue, saturation and intensity setters.  hsi2rgbw
\* and hsi2rgb compute with their arguments, which raises TypeError for None.
HsiSync(self) ==
    IF self._hue = None \/ self._saturation = None \/ self._intensity = None THEN
        Raised([self EXCEPT !._inputType = "hsi"], "TypeError")
    ELSE IF self._enableWhite THEN
        Returned(AssignRgbw([self EXCEPT !._inputType = "hsi"],
                            hsi2rgbw(self._hue, self._saturation, self._intensity)))
    ELSE
        Returned(AssignRgb([self EXCEPT !._inputType = "hsi"],
                           hsi2rgb(self._hue, self._saturation, self._intensity)))

set_hue(self, valIn) == HsiSync([self EXCEPT !._hue = valIn])

set_saturation(self, valIn) == HsiSync([self EXCEPT !._saturation = valIn])

set_intensity(self, valIn) == HsiSync([self EXCEPT !._intensity = valIn])

set_enableWhite(self, valIn) == Returned([self EXCEPT !._enableWhite = valIn])

(***************************************************************************)
(* The descriptor codec.                                                   *)
(***************************************************************************)
HexDigits == << "0", "1", "2", "3", "4", "5", "6", "7",
                "8", "9", "a", "b", "c", "d", "e", "f" >>

\* "{:x}".format(n) for n >= 0.
RECURSIVE HexStr(_)
HexStr(n) ==
    IF n < 16 THEN << HexDigits[n + 1] >>
    ELSE HexStr(n \div 16) \o << HexDigits[(n % 16) + 1] >>

\* "{:0<width>x}".format(n) for n >= 0: zero-padded to at least width.
RECURSIVE PadZero(_, _)
PadZero(str, width) ==
    IF Len(str) >= width THEN str ELSE PadZero(<< "0" >> \o str, width)

\* A format without the zero padding, "{:x}".
Hex_unpadded(n, width) == HexStr(n)

Hex(n, width) == PadZero(HexStr(n), width)

\* What toString returns when no branch is taken, and what stands for the
\* TypeError that round(None) raises.
NoneStr == << "<None>" >>

TypeErrorStr == << "<TypeError>" >>

toString(self, forceMode) ==
    IF (forceMode /= "None" /\ forceMode = "rgb") \/ self._inputType = "rgb" THEN
        IF self._red = None \/ self._green = None \/ self._blue = None
        THEN TypeErrorStr
        ELSE << "c" >> \o Hex(round(self._red), 2) \o Hex(round(self._green), 2)
                       \o Hex(round(self._blue), 2)
    ELSE IF (forceMode /= "None" /\ forceMode = "rgbw") \/ self._inputType = "rgbw" THEN
        LET w == IF white(self) /= None THEN white(self) ELSE 0
        IN  IF self._red = None \/ self._green = None \/ self._blue = None
            THEN TypeErrorStr
            ELSE << "c" >> \o Hex(round(self._red), 2) \o Hex(round(self._green), 2)
                           \o Hex(round(self._blue), 2) \o Hex(round(w), 2)
    ELSE IF (forceMode /= "None" /\ forceMode = "hsi") \/ self._inputType = "hsi" THEN
        IF self._hue = None \/ self._saturation = None \/ self._intensity = None
        THEN TypeErrorStr
        ELSE LET hue == IF self._hue /= FX(360) THEN self._hue % FX(360) ELSE FX(360)
                 body == << "h" >> \o Hex(round(hue), 3)
                                   \o Hex(round(self._saturation * 255), 3)
                                   \o Hex(round(self._intensity * 255), 3)
             IN  IF self._enableWhite = TRUE THEN body \o << "w" >> ELSE body
    ELSE NoneStr

\* __eq__ of two ColorSolid objects.
ColorSolidEq(self, other) == toString(self, "None") = toString(other, "None")

\* str.lower() of one character.
Lower(ch) ==
    CASE ch = "A" -> "a" [] ch = "B" -> "b" [] ch = "C" -> "c" [] ch = "D" -> "d"
      [] ch = "E" -> "e" [] ch = "F" -> "f" [] ch = "H" -> "h" [] ch = "W" -> "w"
      [] ch = "X" -> "x" [] OTHER -> ch

\* The value of a hexadecimal digit, None for any other character.
HexVal(ch) ==
    LET at == { k \in 1..16 : HexDigits[k] = Lower(ch) }
    IN  IF at = {} THEN None ELSE (CHOOSE k \in at : TRUE) - 1

\* str.strip() over the blank.
RECURSIVE Strip(_)
Strip(str) ==
    IF str = << >> THEN str
    ELSE IF Head(str) = " " THEN Strip(Tail(str))
    ELSE IF str[Len(str)] = " " THEN Strip(SubSeq(str, 1, Len(str) - 1))
    ELSE str

\* The digits of an int() literal: hexadecimal digits, single underscores
\* only between two digits (or, with lead, right after the 0x prefix).
DigitsOk(str, lead) ==
    /\ str /= << >>
    /\ \A k \in 1..Len(str) : HexVal(str[k]) /= None \/ str[k] = "_"
    /\ HexVal(str[Len(str)]) /= None
    /\ lead \/ HexVal(str[1]) /= None
    /\ \A k \in 1..(Len(str) - 1) : ~(str[k] = "_" /\ str[k + 1] = "_")

RECURSIVE DigitsVal(_, _)
DigitsVal(str, acc) ==
    IF str = << >> THEN acc
    ELSE IF Head(str) = "_" THEN DigitsVal(Tail(str), acc)
    ELSE DigitsVal(Tail(str), 16 * acc + HexVal(Head(str)))

\* int(str, 16): [ok |-> whether it returns, val |-> the integer].  A
\* ValueError is ok = FALSE.  Blanks around the literal are dropped; then
\* come an optional sign, an optional 0x and the digits.
IntHex(strIn) ==
    LET str    == Strip(strIn)
        signed == str /= << >> /\ Head(str) \in { "+", "-" }
        body   == IF signed THEN Tail(str) ELSE str
        prefix == Len(body) >= 2 /\ body[1] = "0" /\ Lower(body[2]) = "x"
        digits == IF prefix THEN SubSeq(body, 3, Len(body)) ELSE body
        sign   == IF signed /\ Head(str) = "-" THEN 0 - 1 ELSE 1
    IN  IF DigitsOk(digits, prefix)
        THEN [ok |-> TRUE, val |-> sign * DigitsVal(digits, 0)]
        ELSE [ok |-> FALSE, val |-> 0]

\* [int(strIn[i:i+width], 16) for i in range(1, len(strIn), width)]
SplitFields(strIn, width) ==
    LET n == (Len(strIn) - 1 + width - 1) \div width
    IN  [ k \in 1..n |->
            IntHex(SubSeq(strIn, 2 + (k - 1) * width,
                          Min2(Len(strIn), 1 + k * width))) ]

\* An argument of parse that is not a str.
NotAString == << "<not a str>" >>

ParseReturned(value) == [value |-> value, exc |-> "None", printed |-> FALSE]

ParsePrinted == [value |-> NoneObj, exc |-> "None", printed |-> TRUE]

ParseRaised(exc) == [value |-> NoneObj, exc |-> exc, printed |-> FALSE]

\* Whether every int(..., 16) of the list comprehension returned.
FieldsOk(splitStr) == \A k \in 1..Len(splitStr) : splitStr[k].ok

\* The branch of parse for a descriptor that starts with c, past the length
\* test: three fields make an RGB colour (enableWhite=False), else four
\* make an RGBW colour (white passed, enableWhite by default).
ParseRgbFields(splitStr) ==
    IF ~FieldsOk(splitStr) THEN ParseRaised("ValueError")
    ELSE ParseReturned(ColorSolid(FX(splitStr[1].val), FX(splitStr[2].val),
             FX(splitStr[3].val),
             IF Len(splitStr) = 3 THEN None ELSE FX(splitStr[4].val),
             DefaultHue, DefaultSaturation, DefaultIntensity,
             IF Len(splitStr) = 3 THEN FALSE ELSE DefaultEnableWhite))

\* The branch of parse for a descriptor that starts with c.
ParseRgb(strIn) ==
    IF ~(Len(strIn) = 6 + 1 \/ Len(strIn) = 8 + 1) THEN ParsePrinted
    ELSE ParseRgbFields(SplitFields(strIn, 2))

\* The two branches of parse for a descriptor that starts with h, past the
\* length test.
ParseHsiFields(splitStr, enableWhite) ==
    IF ~FieldsOk(splitStr) THEN ParseRaised("ValueError")
    ELSE ParseReturned(ColorSolid(None, None, None, None,
             FX(splitStr[1].val), Div(FX(splitStr[2].val), FX(255)),
             Div(FX(splitStr[3].val), FX(255)), enableWhite))

\* The branch of parse for a descriptor that starts with h and ends with w.
ParseHsiWhite(strIn) ==
    IF ~(Len(strIn) = 10 + 1) THEN ParsePrinted
    ELSE ParseHsiFields(SplitFields(SubSeq(strIn, 1, Len(strIn) - 1), 3), TRUE)

\* The same branch with the length counted without the leading h.
ParseHsi_short(strIn) ==
    IF ~(Len(strIn) = 9) THEN ParsePrinted
    ELSE ParseHsiFields(SplitFields(strIn, 3), FALSE)

\* The branch of parse for a descriptor that starts with h and does not end
\* with w.
ParseHsi(strIn) ==
    IF ~(Len(strIn) = 9 + 1) THEN ParsePrinted
    ELSE ParseHsiFields(SplitFields(strIn, 3), FALSE)

\* ColorSolid.parse: the value returned (NoneObj for None), the exception
\* raised ("None" when the call returned) and whether a warning was printed.
parse(strIn) ==
    IF strIn = NotAString \/ Len(strIn) <= 1 THEN ParseRaised("Exception")
    ELSE IF Lower(strIn[1]) = "c" THEN ParseRgb(strIn)
    ELSE IF Lower(strIn[1]) = "h" /\ Lower(strIn[Len(strIn)]) = "w" THEN
        ParseHsiWhite(strIn)
    ELSE IF Lower(strIn[1]) = "h" /\ ~(Lower(strIn[Len(strIn)]) = "w") THEN
        ParseHsi(strIn)
    ELSE ParsePrinted

\* __repr__ of a ColorSolid.
repr(self) == toString(self, "None")

(***************************************************************************)
(* State.                                                                  *)
(*   colors  the ColorSolid objects the caller holds, by object identity   *)
(*   grad    the ColorGradient object                                      *)
(*   solid   the ColorSolid object of the ColorSolid machine               *)
(*   input   the argument of a call of a pure function                     *)
(*   last    the last call: what it was and how it ended                   *)
(*   calls   the number of calls made on the ColorSolid object             *)
(***************************************************************************)
VARIABLES colors, grad, solid, input, last, calls

vars == << colors, grad, solid, input, last, calls >>

(***************************************************************************)
(* Node arguments and gradients.  A nodes value is None, one ColorSolid    *)
(* (by identity), a list or tuple of ColorSolid objects (by identity), a   *)
(* list holding something that is no ColorSolid, or a value of another     *)
(* type.  An element of a gradient is either one of the caller's objects   *)
(* (ref is its identity) or an object made by the interpolation (ref = 0,  *)
(* obj its attributes).                                                    *)
(***************************************************************************)
NodesNone == [kind |-> "None"]

NodesSolid(ref) == [kind |-> "solid", ref |-> ref]

NodesList(refs) == [kind |-> "list", refs |-> refs]

NodesBadList == [kind |-> "badlist"]

NodesOther == [kind |-> "other"]

Shared(ref) == [ref |-> ref, obj |-> NoneObj]

Fresh(obj) == [ref |-> 0, obj |-> obj]

\* The attributes of a gradient element, read now.
Deref(elem) == IF elem.ref /= 0 THEN colors[elem.ref] ELSE elem.obj

\* What an interpolation returns: None, the nodes argument itself (the one
\* ColorSolid, or the very list that was passed), or a new list.
GradNone == [kind |-> "None"]

GradSolid(ref) == [kind |-> "solid", ref |-> ref]

GradSameList(refs) ==
    [kind |-> "list", same |-> TRUE, elems |-> [k \in 1..Len(refs) |-> Shared(refs[k])]]

GradNewList(elems) == [kind |-> "list", same |-> FALSE, elems |-> elems]

\* "return nodes": the result is the argument itself.
NodesAsGrad(nodes) ==
    IF nodes.kind = "list" THEN GradSameList(nodes.refs)
    ELSE IF nodes.kind = "solid" THEN GradSolid(nodes.ref)
    ELSE [kind |-> nodes.kind]

InterpReturned(value) == [value |-> value, exc |-> "None"]

InterpRaised(exc) == [value |-> GradNone, exc |-> exc]

\* lerp, with x the exact quotient x.n / x.d and x0, x1 whole numbers.
lerp(x, x0, x1, y0, y1) ==
    LET n1 == IF x.n > x1 * x.d THEN x1 * x.d ELSE x.n
        n2 == IF n1 < x0 * x.d THEN x0 * x.d ELSE n1
    IN  y0 + DivNear((y1 - y0) * (n2 - x0 * x.d), (x1 - x0) * x.d)

\* A version that never recognises one colour on its own.
IsOneColor_never(nodes) == FALSE

\* (not isinstance(nodes,list) and not isinstance(nodes,tuple)) and
\* isinstance(nodes,ColorSolid)
IsOneColor(nodes) == nodes.kind = "solid"

\* any([color.enableWhite for color in nodes])
AnyWhite(refs) == \E k \in 1..Len(refs) : colors[refs[k]]._enableWhite

\* The colour linearInterpHsi makes at step idx of steps between two nodes.
HsiStep(curColor, nextColor, idx, steps, whiteEnabled) ==
    LET curPos == [n |-> idx - 1, d |-> steps]
        newTheta == lerp(curPos, 0, 1, curColor._hue, nextColor._hue)
        newSat == lerp(curPos, 0, 1, curColor._saturation, nextColor._saturation)
        newRho == lerp(curPos, 0, 1, curColor._intensity, nextColor._intensity)
    IN  ColorSolid(None, None, None, None, newTheta, newSat, newRho, whiteEnabled)

\* The last element of both interpolations: a copy of the last node with
\* its _inputType overwritten.
LastColor(refs, inputType) ==
    [copy(colors[refs[Len(refs)]], "None") EXCEPT !._inputType = inputType]

linearInterpHsi(nodes, stepsIn) ==
    IF nodes.kind = "None" THEN InterpReturned(GradNone)
    ELSE IF IsOneColor(nodes) THEN InterpReturned(GradSolid(nodes.ref))
    ELSE IF stepsIn = 0 THEN InterpReturned(NodesAsGrad(nodes))
    ELSE IF nodes.kind /= "list" THEN InterpRaised("TypeError")
    ELSE
        LET refs == nodes.refs
            whiteEnabled == AnyWhite(refs)
            steps == stepsIn + 1
            pairs == Len(refs) - 1
            outputList == [ k \in 1..(pairs * steps) |->
                LET pair == ((k - 1) \div steps) + 1
                    idx  == ((k - 1) % steps) + 1
                IN  Fresh(HsiStep(colors[refs[pair]], colors[refs[pair + 1]],
                                  idx, steps, whiteEnabled)) ]
        IN  IF refs = << >> THEN InterpRaised("IndexError")
            ELSE InterpReturned(GradNewList(
                     outputList \o << Fresh(LastColor(refs, "hsi")) >>))

\* The white channel linearInterpRgbw gives an interpolated colour.
RgbwStepWhite(curColor, nextColor, curPos) ==
    IF white(curColor) = None /\ white(nextColor) /= None THEN
        FX(round(lerp(curPos, 0, 1, 0, white(nextColor))))
    ELSE IF white(curColor) /= None /\ white(nextColor) = None THEN
        FX(round(lerp(curPos, 0, 1, white(curColor), 0)))
    ELSE IF white(curColor) /= None /\ white(nextColor) /= None THEN
        FX(round(lerp(curPos, 0, 1, white(curColor), white(nextColor))))
    ELSE None

\* The colour linearInterpRgbw makes at step idx (from 0) between two nodes.
RgbwStep(curColor, nextColor, idx, steps, whiteEnabled) ==
    LET curPos == [n |-> idx + 1, d |-> steps + 1]
        intermediateColorR == FX(round(lerp(curPos, 0, 1, curColor._red, nextColor._red)))
        intermediateColorG == FX(round(lerp(curPos, 0, 1, curColor._green, nextColor._green)))
        intermediateColorB == FX(round(lerp(curPos, 0, 1, curColor._blue, nextColor._blue)))
        intermediateColorW == RgbwStepWhite(curColor, nextColor, curPos)
    IN  ColorSolid(intermediateColorR, intermediateColorG, intermediateColorB,
                   intermediateColorW, DefaultHue, DefaultSaturation,
                   DefaultIntensity, whiteEnabled)

linearInterpRgbw(nodes, steps) ==
    IF nodes.kind = "None" THEN InterpReturned(GradNone)
    ELSE IF IsOneColor(nodes) THEN InterpReturned(GradSolid(nodes.ref))
    ELSE IF steps = 0 THEN InterpReturned(NodesAsGrad(nodes))
    ELSE IF nodes.kind /= "list" THEN InterpRaised("TypeError")
    ELSE
        LET refs == nodes.refs
            whiteEnabled == AnyWhite(refs)
            pairs == Len(refs) - 1
            outputList == [ k \in 1..(pairs * (steps + 1)) |->
                LET pair == ((k - 1) \div (steps + 1)) + 1
                    pos  == (k - 1) % (steps + 1)
                IN  IF pos = 0 THEN Shared(refs[pair])
                    ELSE Fresh(RgbwStep(colors[refs[pair]], colors[refs[pair + 1]],
                                        pos - 1, steps, whiteEnabled)) ]
        IN  IF refs = << >> THEN InterpRaised("IndexError")
            ELSE InterpReturned(GradNewList(
                     outputList \o << Fresh(LastColor(refs, "rgbw")) >>))

(***************************************************************************)
(* ColorGradient: the object is a record of _nodes, _steps, interpMode and *)
(* gradient.  gradient is GradUnset as long as the attribute was never     *)
(* assigned.                                                               *)
(***************************************************************************)
GradUnset == [kind |-> "unset"]

\* The validity test of the nodes setter: something that is not None and is neither
\* a ColorSolid nor a list or tuple of ColorSolid objects only.
InvalidNodes(valIn) ==
    valIn.kind /= "None" /\ (valIn.kind = "other" \/ valIn.kind = "badlist")

\* ColorGradient.generate; it returns None for any other interpMode.
generate(self) ==
    IF self.interpMode = "hsi" THEN linearInterpHsi(self._nodes, self._steps)
    ELSE IF self.interpMode = "rgbw" THEN linearInterpRgbw(self._nodes, self._steps)
    ELSE InterpReturned(GradNone)

\* self.gradient = <what generate returned>, or the exception it raised.
AssignGradient(self, ret) ==
    IF ret.exc /= "None" THEN Raised(self, ret.exc)
    ELSE Returned([self EXCEPT !.gradient = ret.value])

\* self.gradient = self.generate()
Regenerate(self) == AssignGradient(self, generate(self))

set_nodes(self, valIn) ==
    IF InvalidNodes(valIn) THEN [self |-> self, exc |-> "None", printed |-> TRUE]
    ELSE Regenerate([self EXCEPT !._nodes = valIn])

set_steps(self, valIn) == Regenerate([self EXCEPT !._steps = valIn])

\* interpMode is a plain attribute: writing it assigns it and nothing else.
set_interpMode(self, valIn) == Returned([self EXCEPT !.interpMode = valIn])

\* ColorGradient.__init__: the attributes, then the nodes setter.
ColorGradient(nodes, steps, interpMode) ==
    set_nodes([_nodes |-> NodesNone, _steps |-> steps, interpMode |-> interpMode,
               gradient |-> GradUnset], nodes)

(***************************************************************************)
(* The colours the caller holds: decoded descriptors of every              *)
(* representation, with and without the white LED.                         *)
(***************************************************************************)
PaletteDescriptors ==
    << << "c", "f", "f", "0", "0", "0", "0", "0", "0" >>,
       << "c", "0", "0", "f", "f", "0", "0", "0", "0" >>,
       << "c", "f", "f", "0", "0", "0", "0" >>,
       << "h", "0", "7", "8", "0", "f", "f", "0", "f", "f" >>,
       << "h", "0", "f", "0", "0", "8", "0", "0", "8", "0", "w" >>,
       << "c", "1", "0", "2", "0", "3", "0", "4", "0" >>,
       << "h", "0", "f", "0", "0", "8", "0", "0", "8", "0" >> >>

Palette ==
    [ k \in 1..Len(PaletteDescriptors) |-> parse(PaletteDescriptors[k]).value ]

ColorIds == 1..Len(PaletteDescriptors)

\* The longest node list and the largest step count that are tried.
MaxNodes == 2

MaxSteps == 2

SeqsUpTo(S, n) == UNION { [1..k -> S] : k \in 0..n }

NodeArgs ==
    { NodesNone } \cup { NodesSolid(ref) : ref \in ColorIds }
        \cup { NodesList(refs) : refs \in SeqsUpTo(ColorIds, MaxNodes) }

NoCall == [op |-> "none"]

(***************************************************************************)
(* The interpolation functions, applied to every nodes argument and step   *)
(* count.                                                                  *)
(***************************************************************************)
InterpInit ==
    /\ colors = Palette
    /\ grad = NoneObj
    /\ solid = NoneObj
    /\ input \in [nodes : NodeArgs, steps : 0..MaxSteps]
    /\ last = NoCall
    /\ calls = 0

InterpHsi ==
    /\ last = NoCall
    /\ last' = [op |-> "linearInterpHsi", ret |-> linearInterpHsi(input.nodes, input.steps)]
    /\ UNCHANGED << colors, grad, solid, input, calls >>

InterpRgbw ==
    /\ last = NoCall
    /\ last' = [op |-> "linearInterpRgbw", ret |-> linearInterpRgbw(input.nodes, input.steps)]
    /\ UNCHANGED << colors, grad, solid, input, calls >>

InterpNext == InterpHsi \/ InterpRgbw

SpecInterp == InterpInit /\ [][InterpNext]_vars

(***************************************************************************)
(* One ColorSolid object: the constructor, called with every combination   *)
(* of passed and omitted arguments, then property writes.                  *)
(***************************************************************************)
\* An argument the call does not pass, so that the default stands for it.
NotPassed == 0 - 2

ArgOr(arg, default) == IF arg = NotPassed THEN default ELSE arg

\* The arguments of the constructor calls that are tried.
SolidArgs ==
    [ red : { NotPassed, FX(255) }, green : { NotPassed, FX(128) },
      blue : { NotPassed, 0 }, white : { NotPassed, FX(64) },
      hue : { NotPassed, None, FX(120) }, saturation : { NotPassed, U \div 2 },
      intensity : { NotPassed, None }, enableWhite : BOOLEAN ]

\* The most property writes made on the object.
MaxCalls == 2

SolidInit ==
    /\ colors = << >>
    /\ grad = NoneObj
    /\ solid = NoneObj
    /\ input = NoneObj
    /\ last = NoCall
    /\ calls = 0

\* ColorSolid(...): __init__ raises nothing; it prints when neither red,
\* green, blue nor hue, saturation, intensity are all there.
SolidConstruct ==
    /\ solid = NoneObj
    /\ \E a \in SolidArgs :
        /\ solid' = ColorSolid(ArgOr(a.red, None), ArgOr(a.green, None),
                               ArgOr(a.blue, None), ArgOr(a.white, None),
                               ArgOr(a.hue, DefaultHue),
                               ArgOr(a.saturation, DefaultSaturation),
                               ArgOr(a.intensity, DefaultIntensity), a.enableWhite)
        /\ last' = [op |-> "init", arg |-> a, exc |-> "None",
                    printed |-> InitPrints(ArgOr(a.red, None), ArgOr(a.green, None),
                                           ArgOr(a.blue, None), ArgOr(a.hue, DefaultHue),
                                           ArgOr(a.saturation, DefaultSaturation),
                                           ArgOr(a.intensity, DefaultIntensity))]
    /\ UNCHANGED << colors, grad, input, calls >>

\* A property write that ended as ret says.
Written(op, arg, ret) ==
    /\ solid /= NoneObj
    /\ calls < MaxCalls
    /\ solid' = ret.self
    /\ last' = [op |-> op, arg |-> arg, exc |-> ret.exc, printed |-> ret.printed]
    /\ calls' = calls + 1
    /\ UNCHANGED << colors, grad, input >>

SetRed == Written("set_red", FX(10), set_red(solid, FX(10)))

SetGreen == Written("set_green", FX(20), set_green(solid, FX(20)))

SetBlue == Written("set_blue", FX(30), set_blue(solid, FX(30)))

SetWhite == \E v \in { FX(40), None } : Written("set_white", v, set_white(solid, v))

SetHue == Written("set_hue", FX(200), set_hue(solid, FX(200)))

SetSaturation == Written("set_saturation", U \div 4, set_saturation(solid, U \div 4))

SetIntensity == Written("set_intensity", U \div 2, set_intensity(solid, U \div 2))

SetEnableWhite ==
    \E v \in BOOLEAN : Written("set_enableWhite", v, set_enableWhite(solid, v))

\* The forceMode arguments that are tried; "None" is the default.
ForceModes == { "None", "rgb", "rgbw", "hsi" }

\* solid.copy(forceMode): the object itself is left as it is.
SolidCopy ==
    /\ solid /= NoneObj
    /\ \E forceMode \in ForceModes :
        last' = [op |-> "copy", arg |-> forceMode, ret |-> copy(solid, forceMode)]
    /\ UNCHANGED << colors, grad, solid, input, calls >>

\* solid.toString(forceMode)
SolidToString ==
    /\ solid /= NoneObj
    /\ \E forceMode \in ForceModes :
        last' = [op |-> "toString", arg |-> forceMode, ret |-> toString(solid, forceMode)]
    /\ UNCHANGED << colors, grad, solid, input, calls >>

SolidNext ==
    \/ SolidConstruct
    \/ SetRed \/ SetGreen \/ SetBlue \/ SetWhite
    \/ SetHue \/ SetSaturation \/ SetIntensity
    \/ SetEnableWhite
    \/ SolidCopy \/ SolidToString

SpecSolid == SolidInit /\ [][SolidNext]_vars

(***************************************************************************)
(* One ColorGradient object: the constructor, then writes to nodes, steps  *)
(* and interpMode.  The caller's colours do not change.                    *)
(***************************************************************************)
\* The nodes values that are written: valid and invalid ones, over the
\* first three colours.
GradNodeArgs ==
    { NodesNone, NodesBadList, NodesOther }
        \cup { NodesSolid(ref) : ref \in 1..3 }
        \cup { NodesList(refs) : refs \in SeqsUpTo(1..3, MaxNodes) }

GradInit ==
    /\ colors = Palette
    /\ grad = NoneObj
    /\ solid = NoneObj
    /\ input = NoneObj
    /\ last = NoCall
    /\ calls = 0

\* The constructor returned the object, or raised and left none.
GradConstructed(arg, ret) ==
    /\ grad' = IF ret.exc = "None" THEN ret.self ELSE NoneObj
    /\ last' = [op |-> "init", arg |-> arg, exc |-> ret.exc, printed |-> ret.printed]
    /\ UNCHANGED << colors, solid, input, calls >>

GradConstruct ==
    /\ grad = NoneObj
    /\ \E nodes \in GradNodeArgs, steps \in 0..MaxSteps, interpMode \in { "hsi", "rgbw" } :
        GradConstructed([nodes |-> nodes, steps |-> steps, interpMode |-> interpMode],
                        ColorGradient(nodes, steps, interpMode))

\* An attribute write that ended as ret says; what was assigned before an
\* exception stays assigned.
GradWritten(op, arg, ret) ==
    /\ grad /= NoneObj
    /\ grad' = ret.self
    /\ last' = [op |-> op, arg |-> arg, exc |-> ret.exc, printed |-> ret.printed]
    /\ UNCHANGED << colors, solid, input, calls >>

GradSetNodes ==
    \E valIn \in GradNodeArgs : GradWritten("set_nodes", valIn, set_nodes(grad, valIn))

GradSetSteps ==
    \E valIn \in 0..MaxSteps : GradWritten("set_steps", valIn, set_steps(grad, valIn))

GradSetInterpMode ==
    \E valIn \in { "hsi", "rgbw" } :
        GradWritten("set_interpMode", valIn, set_interpMode(grad, valIn))

GradNext == GradConstruct \/ GradSetNodes \/ GradSetSteps \/ GradSetInterpMode

SpecGradient == GradInit /\ [][GradNext]_vars

(***************************************************************************)
(* Properties of the interpolation functions (under SpecInterp).           *)
(***************************************************************************)
IsInterpCall == last.op \in { "linearInterpHsi", "linearInterpRgbw" }

\* The representation the called interpolation forces on its last colour.
ModeOfCall == IF last.op = "linearInterpHsi" THEN "hsi" ELSE "rgbw"

\* The colours of a returned gradient, in order.
ResultColors(value) ==
    IF value.kind = "solid" THEN << colors[value.ref] >>
    ELSE IF value.kind = "list" THEN [k \in 1..Len(value.elems) |-> Deref(value.elems[k])]
    ELSE << >>

\* The descriptors of the colours of a returned gradient, in order.
ResultStrings(value) ==
    [k \in 1..Len(ResultColors(value)) |-> repr(ResultColors(value)[k])]

\* C9 as stated: interpolating a sequence that holds exactly one colour
\* returns that colour unchanged (same attributes, so same representation and
\* same descriptor), in either mode and for every step count.
C9_OneElementSequenceUnchanged ==
    (IsInterpCall /\ input.nodes.kind = "list" /\ Len(input.nodes.refs) = 1) =>
        /\ last.ret.exc = "None"
        /\ ResultColors(last.ret.value) = << colors[input.nodes.refs[1]] >>

\* C9 as amended: when the nodes argument is one colour itself, not wrapped
\* in a sequence, either interpolation returns that very object for every
\* step count; a one-element sequence is returned as it is only for 0 steps,
\* and for 1 or more steps the result is a new one-element list holding a new
\* object whose representation is the one of the mode.
C9_BareColorReturnedItself ==
    /\ (IsInterpCall /\ input.nodes.kind = "solid") =>
           /\ last.ret.exc = "None"
           /\ last.ret.value = GradSolid(input.nodes.ref)
    /\ (IsInterpCall /\ input.nodes.kind = "list" /\ Len(input.nodes.refs) = 1) =>
           /\ last.ret.exc = "None"
           /\ last.ret.value.kind = "list"
           /\ Len(last.ret.value.elems) = 1
           /\ IF input.steps = 0
              THEN last.ret.value.same /\ last.ret.value.elems[1].ref = input.nodes.refs[1]
              ELSE /\ ~last.ret.value.same
                   /\ last.ret.value.elems[1].ref = 0
                   /\ last.ret.value.elems[1].obj._inputType = ModeOfCall

\* One colour, not in a sequence, interpolated with at least one step.
C9_Witness ==
    /\ IsInterpCall
    /\ input.nodes.kind = "solid"
    /\ input.steps >= 1
    /\ last.ret.value = GradSolid(input.nodes.ref)

\* The two nodes of C10, decoded from cff000000 and c00ff0000, with one step.
C10_Case ==
    /\ last.op = "linearInterpRgbw"
    /\ input.nodes = NodesList(<< 1, 2 >>)
    /\ input.steps = 1
    /\ colors[1] = parse(<< "c", "f", "f", "0", "0", "0", "0", "0", "0" >>).value
    /\ colors[2] = parse(<< "c", "0", "0", "f", "f", "0", "0", "0", "0" >>).value

\* C10 as stated: the RGBW gradient of cff000000 and c00ff0000 with one step
\* is cff000000, c7f7f0000, c00ff0000.
C10_MidpointIs7f ==
    C10_Case =>
        ResultStrings(last.ret.value) =
            << << "c", "f", "f", "0", "0", "0", "0", "0", "0" >>,
               << "c", "7", "f", "7", "f", "0", "0", "0", "0" >>,
               << "c", "0", "0", "f", "f", "0", "0", "0", "0" >> >>

\* C10 as amended: the RGBW gradient of cff000000 and c00ff0000 with one step
\* is cff000000, c80800000, c00ff0000: the midpoint 127.5 of 255 and 0 is
\* rounded to the even neighbour 128 = 0x80 on each interpolated channel.
C10_MidpointIs80 ==
    C10_Case =>
        /\ last.ret.exc = "None"
        /\ ResultStrings(last.ret.value) =
            << << "c", "f", "f", "0", "0", "0", "0", "0", "0" >>,
               << "c", "8", "0", "8", "0", "0", "0", "0", "0" >>,
               << "c", "0", "0", "f", "f", "0", "0", "0", "0" >> >>

\* The gradient of C10 has been computed and has three colours.
C10_Witness == C10_Case /\ Len(ResultColors(last.ret.value)) = 3

\* An interpolation of at least two nodes with at least one step returned.
IsStepped ==
    /\ IsInterpCall
    /\ input.nodes.kind = "list"
    /\ Len(input.nodes.refs) >= 2
    /\ input.steps >= 1
    /\ last.ret.exc = "None"

\* C11: in HSI mode, with two nodes or more and one step or more, every
\* colour of the returned sequence, the appended last one included, has
\* enableWhite true exactly when some input node has enableWhite true.
C11_WhiteIffAnyNodeWhite ==
    (IsStepped /\ last.op = "linearInterpHsi") =>
        \A k \in 1..Len(ResultColors(last.ret.value)) :
            ResultColors(last.ret.value)[k]._enableWhite = AnyWhite(input.nodes.refs)

\* The attributes of a colour that the called interpolation works on: hue,
\* saturation and intensity in HSI mode, red, green, blue and white in RGBW
\* mode.
ModeFields(color) ==
    IF ModeOfCall = "hsi" THEN << color._hue, color._saturation, color._intensity >>
    ELSE << color._red, color._green, color._blue, white(color) >>

\* C15: for m >= 2 nodes and s >= 1 steps, either interpolation returns
\* exactly (m-1)*(s+1)+1 colours, and the colour at index i*(s+1) (from 0)
\* has the attributes of node i in the representation of the mode, for every
\* i in 0..m-1.
C15_LengthAndNodePositions ==
    IsStepped =>
        /\ Len(ResultColors(last.ret.value)) =
               (Len(input.nodes.refs) - 1) * (input.steps + 1) + 1
        /\ \A i \in 0..(Len(input.nodes.refs) - 1) :
               ModeFields(ResultColors(last.ret.value)[i * (input.steps + 1) + 1]) =
                   ModeFields(colors[input.nodes.refs[i + 1]])

(***************************************************************************)
(* The codec: parse applied to descriptors, well-formed and not, and       *)
(* toString followed by parse applied to RGB and RGBW colours.             *)
(***************************************************************************)
Descriptor_h0000ff0ff == << "h", "0", "0", "0", "0", "f", "f", "0", "f", "f" >>

Descriptor_h0000ff0ffw == << "h", "0", "0", "0", "0", "f", "f", "0", "f", "f", "w" >>

Descriptor_h000ff0ff == << "h", "0", "0", "0", "f", "f", "0", "f", "f" >>

Descriptor_h000ff0ffw == << "h", "0", "0", "0", "f", "f", "0", "f", "f", "w" >>

BaseDescriptors ==
    { << "c", "f", "f", "0", "0", "0", "0" >>,
      << "c", "1", "0", "2", "0", "3", "0", "4", "0" >>,
      Descriptor_h0000ff0ff, Descriptor_h0000ff0ffw,
      Descriptor_h000ff0ff, Descriptor_h000ff0ffw }

\* Characters put in place of, or after, the characters of a descriptor.
Alphabet == { "g", "z", "+", "w", "C", "H", "x", "0", " " }

\* A descriptor, the descriptor with one character replaced, each of its
\* prefixes, and the descriptor with one character appended.
Variants(str) ==
    { str }
        \cup { [str EXCEPT ![k] = ch] : k \in 1..Len(str), ch \in Alphabet }
        \cup { SubSeq(str, 1, k) : k \in 0..Len(str) }
        \cup { str \o << ch >> : ch \in Alphabet }

Descriptors == UNION { Variants(str) : str \in BaseDescriptors }

\* Channel values of the colours that are encoded: whole numbers and a half.
Channels == { 0, FX(9), FX(16), FX(127) + (U \div 2), FX(255) }

\* The RGB and RGBW colours, built by the constructor.
RgbColors ==
    { ColorSolid(r, g, b, w, DefaultHue, DefaultSaturation, DefaultIntensity, ew) :
        r \in Channels, g \in Channels, b \in Channels,
        w \in Channels \cup { None }, ew \in BOOLEAN }

CodecInit ==
    /\ colors = << >>
    /\ grad = NoneObj
    /\ solid = NoneObj
    /\ input \in { [kind |-> "str", str |-> str] : str \in Descriptors }
           \cup { [kind |-> "color", color |-> color] : color \in RgbColors }
    /\ last = NoCall
    /\ calls = 0

\* ColorSolid.parse(input.str)
Decode ==
    /\ last = NoCall
    /\ input.kind = "str"
    /\ last' = [op |-> "parse", ret |-> parse(input.str)]
    /\ UNCHANGED << colors, grad, solid, input, calls >>

\* input.color.toString()
Encode ==
    /\ last = NoCall
    /\ input.kind = "color"
    /\ last' = [op |-> "toString", str |-> toString(input.color, "None")]
    /\ UNCHANGED << colors, grad, solid, input, calls >>

\* ColorSolid.parse of the string toString returned.
DecodeEncoded ==
    /\ last.op = "toString"
    /\ last' = [op |-> "parse", str |-> last.str, ret |-> parse(last.str)]
    /\ UNCHANGED << colors, grad, solid, input, calls >>

CodecNext == Decode \/ Encode \/ DecodeEncoded

SpecCodec == CodecInit /\ [][CodecNext]_vars

(***************************************************************************)
(* Properties of the codec (under SpecCodec).                              *)
(***************************************************************************)
\* The characters of the fields of a descriptor: all but the first, and all
\* but a trailing w when the descriptor starts with h.
FieldChars(str) ==
    IF Lower(str[1]) = "h" /\ Lower(str[Len(str)]) = "w"
    THEN SubSeq(str, 2, Len(str) - 1)
    ELSE SubSeq(str, 2, Len(str))

\* The malformed shapes of a descriptor: empty or of length 1 or less, a
\* prefix that is neither c nor h, a wrong length for the prefix, or a
\* character in a field that is no hexadecimal digit.
Malformed(str) ==
    \/ Len(str) <= 1
    \/ Lower(str[1]) \notin { "c", "h" }
    \/ Lower(str[1]) = "c" /\ Len(str) \notin { 7, 9 }
    \/ Lower(str[1]) = "h" /\ Lower(str[Len(str)]) = "w" /\ Len(str) /= 11
    \/ Lower(str[1]) = "h" /\ Lower(str[Len(str)]) /= "w" /\ Len(str) /= 10
    \/ \E k \in 1..Len(FieldChars(str)) : HexVal(FieldChars(str)[k]) = None

IsDecode == last.op = "parse" /\ input.kind = "str"

\* C6: parse reports every malformed descriptor to the caller as a failure
\* (never a silently returned None, never a decoded colour), and the failure
\* is of the same kind for all malformed shapes: the kind it has for the
\* empty descriptor.
C6_MalformedAlwaysFails ==
    (IsDecode /\ Malformed(input.str)) =>
        /\ last.ret.exc /= "None"
        /\ last.ret.exc = parse(<< >>).exc

\* C7 as stated: h000ff0ff decodes to a colour with enableWhite false and
\* h000ff0ffw decodes to a colour with enableWhite true.
C7_ShortDescriptorsDecode ==
    /\ (IsDecode /\ input.str = Descriptor_h000ff0ff) =>
           /\ last.ret.exc = "None"
           /\ last.ret.value /= NoneObj
           /\ last.ret.value._enableWhite = FALSE
    /\ (IsDecode /\ input.str = Descriptor_h000ff0ffw) =>
           /\ last.ret.exc = "None"
           /\ last.ret.value /= NoneObj
           /\ last.ret.value._enableWhite = TRUE

\* C7 as amended: h0000ff0ff (h and three digits for each of hue, saturation
\* and intensity, 10 characters) decodes to an HSI colour with enableWhite
\* false, and h0000ff0ffw (11 characters) decodes to an HSI colour with
\* enableWhite true; h000ff0ff and h000ff0ffw, one digit short, decode to
\* no colour: parse returns None for them.
C7_FullDescriptorsDecode ==
    /\ (IsDecode /\ input.str = Descriptor_h0000ff0ff) =>
           /\ last.ret.exc = "None"
           /\ last.ret.value /= NoneObj
           /\ last.ret.value._inputType = "hsi"
           /\ last.ret.value._enableWhite = FALSE
    /\ (IsDecode /\ input.str = Descriptor_h0000ff0ffw) =>
           /\ last.ret.exc = "None"
           /\ last.ret.value /= NoneObj
           /\ last.ret.value._inputType = "hsi"
           /\ last.ret.value._enableWhite = TRUE
    /\ (IsDecode /\ input.str \in { Descriptor_h000ff0ff, Descriptor_h000ff0ffw }) =>
           /\ last.ret.exc = "None"
           /\ last.ret.value = NoneObj

\* h0000ff0ff has been decoded to a colour without the white LED.
C7_Witness ==
    /\ IsDecode
    /\ input.str = Descriptor_h0000ff0ff
    /\ last.ret.value /= NoneObj
    /\ last.ret.value._enableWhite = FALSE

\* The string toString gave has been decoded again.
IsRoundTrip == last.op = "parse" /\ input.kind = "color"

\* C8: for every colour in RGB form (enableWhite false) or RGBW form
\* (enableWhite true, white None or in 0..255) with channels in 0..255,
\* parse of its toString returns a colour, and that colour is equal to the
\* first one under __eq__: its toString is the same string.
C8_RoundTrip ==
    IsRoundTrip =>
        /\ last.ret.exc = "None"
        /\ last.ret.value /= NoneObj
        /\ toString(last.ret.value, "None") = last.str
        /\ ColorSolidEq(last.ret.value, input.color)

\* An RGBW colour with a channel below 16 and a white that is not None has
\* been encoded and decoded again.
C8_Witness ==
    /\ IsRoundTrip
    /\ input.color._inputType = "rgbw"
    /\ input.color._red = FX(9)
    /\ input.color._white = FX(16)
    /\ last.ret.value /= NoneObj

(***************************************************************************)
(* Properties of ColorSolid (under SpecSolid).                             *)
(***************************************************************************)
\* Every attribute but _white.
AllButWhite(self) ==
    << self._red, self._green, self._blue, self._hue, self._saturation,
       self._intensity, self._enableWhite, self._inputType >>

\* C3: on an object whose enableWhite is false, every write to white, of
\* any value, fails with an exception and leaves red, green, blue, hue,
\* saturation, intensity, enableWhite and the representation as they were.
C3_WhiteWriteFails ==
    [][ (solid /= NoneObj /\ solid._enableWhite = FALSE /\ last'.op = "set_white"
             /\ calls' = calls + 1)
        => (last'.exc /= "None" /\ AllButWhite(solid') = AllButWhite(solid)) ]_vars

\* C4: whenever enableWhite is false, the white property reads None:
\* after every construction and every sequence of property writes.
C4_WhiteNoneWhenDisabled ==
    (solid /= NoneObj /\ solid._enableWhite = FALSE) => white(solid) = None

\* The white LED was switched off on an object that stores a white value.
C4_Witness ==
    /\ solid /= NoneObj
    /\ last.op = "set_enableWhite"
    /\ solid._enableWhite = FALSE
    /\ solid._white /= None

\* A constructor call that passes none of hue, saturation and intensity and
\* not all three of red, green and blue.
IncompleteArgs(a) ==
    /\ a.hue = NotPassed /\ a.saturation = NotPassed /\ a.intensity = NotPassed
    /\ (a.red = NotPassed \/ a.green = NotPassed \/ a.blue = NotPassed)

\* C5: a construction that passes no colour field at all, or only some of
\* red, green and blue and none of hue, saturation and intensity, fails and
\* yields no configured colour.
C5_IncompleteConstructionFails ==
    (last.op = "init" /\ IncompleteArgs(last.arg)) =>
        /\ last.exc /= "None"
        /\ solid._inputType = "None"

\* The object has all its colour attributes and one of the three
\* representations.
Configured(self) ==
    /\ self /= NoneObj
    /\ self._inputType \in { "rgb", "rgbw", "hsi" }
    /\ self._red /= None /\ self._green /= None /\ self._blue /= None
    /\ self._hue /= None /\ self._saturation /= None /\ self._intensity /= None

\* The descriptor has the prefix and the length of the representation: c
\* and 6 hex digits for rgb, c and 8 for rgbw, h and 9 (and w when the white
\* LED is enabled) for hsi.
HasShapeOf(str, mode, enableWhite) ==
    IF mode = "rgb" THEN Len(str) = 7 /\ str[1] = "c"
    ELSE IF mode = "rgbw" THEN Len(str) = 9 /\ str[1] = "c"
    ELSE Len(str) = (IF enableWhite THEN 11 ELSE 10) /\ str[1] = "h"

\* C12: with a forced representation, toString and copy use the fields of
\* the forced representation whatever the current one is: the descriptor has
\* the prefix and the length of the forced representation, and the copy is
\* the object the constructor makes of the forced representation's fields.
C12_ForcedModeWins ==
    (Configured(solid) /\ last.op \in { "copy", "toString" } /\ last.arg /= "None") =>
        IF last.op = "toString"
        THEN HasShapeOf(last.ret, last.arg, solid._enableWhite)
        ELSE last.ret = CopyAs(solid, last.arg)

\* The constructor call passed red, green and blue, or left hue, saturation
\* and intensity to their defaults or passed them: the object is an RGB, an
\* RGBW or an HSI colour.
IsConstructed == calls = 0 /\ Configured(solid)

\* C16: a copy without forced representation of a constructed colour has
\* the enableWhite and the representation of the original and the same
\* descriptor, so that it is equal to the original.
C16_CopyEqualsOriginal ==
    (IsConstructed /\ last.op = "copy" /\ last.arg = "None") =>
        /\ last.ret /= NoneObj
        /\ last.ret._enableWhite = solid._enableWhite
        /\ last.ret._inputType = solid._inputType
        /\ ColorSolidEq(last.ret, solid)

(***************************************************************************)
(* Properties of ColorGradient (under SpecGradient).                       *)
(***************************************************************************)
\* C1: after the construction and after every write to nodes, steps and
\* interpMode, the stored gradient is what the interpolation of the current
\* nodes, steps and interpMode gives; it is never stale.  (Compared where a
\* gradient is stored and the interpolation returns.)
C1_GradientNeverStale ==
    (grad /= NoneObj /\ grad.gradient /= GradUnset /\ generate(grad).exc = "None")
        => grad.gradient = generate(grad).value

\* C2: a write to nodes of a value that is neither a ColorSolid nor a list
\* or tuple of ColorSolid objects only, at construction or later, is reported
\* to the caller as a failure, and a later write leaves nodes, steps and the
\* stored gradient as they were.
C2_InvalidNodesRejected ==
    [][ /\ (last'.op = "init" /\ InvalidNodes(last'.arg.nodes))
            => last'.exc /= "None"
        /\ (last'.op = "set_nodes" /\ InvalidNodes(last'.arg))
            => (last'.exc /= "None" /\ grad' = grad) ]_vars

\* The stored gradient holds a node object: it is the one colour that nodes
\* is, or a list (the very list that nodes is, or a new one) with a node
\* among its elements.
SharesNode(gradient) ==
    \/ gradient.kind = "solid"
    \/ /\ gradient.kind = "list"
       /\ \E k \in 1..Len(gradient.elems) : gradient.elems[k].ref /= 0

\* C14: after the construction and after every write to nodes and steps, in
\* either mode and for every step count, 0 included, no element of the
\* stored gradient is a node object, so that a later write to a node cannot
\* change the stored gradient.
C14_NoSharedObjects ==
    (grad /= NoneObj /\ last.op \in { "init", "set_nodes", "set_steps" }) =>
        ~SharesNode(grad.gradient)


(***************************************************************************)
(* The conversions: rgb2hsi applied to RGB triples of whole channels, and  *)
(* hsi2rgb applied to what it returned.                                    *)
(***************************************************************************)
\* The channel values that are tried, of 0..255.
ChannelValues == { 0, FX(16), FX(50), FX(100), FX(128), FX(200), FX(255) }

ConvertInit ==
    /\ colors = << >>
    /\ grad = NoneObj
    /\ solid = NoneObj
    /\ input \in [red : ChannelValues, green : ChannelValues, blue : ChannelValues]
    /\ last = NoCall
    /\ calls = 0

\* ColorSolid.rgb2hsi(red, green, blue)
Rgb2Hsi ==
    /\ last = NoCall
    /\ last' = [op |-> "rgb2hsi", ret |-> rgb2hsi(input.red, input.green, input.blue)]
    /\ UNCHANGED << colors, grad, solid, input, calls >>

\* ColorSolid.hsi2rgb(hue, saturation, intensity) of the triple rgb2hsi
\* returned.
Hsi2Rgb ==
    /\ last.op = "rgb2hsi"
    /\ last' = [op |-> "hsi2rgb", arg |-> last.ret,
                ret |-> hsi2rgb(last.ret[1], last.ret[2], last.ret[3])]
    /\ UNCHANGED << colors, grad, solid, input, calls >>

ConvertNext == Rgb2Hsi \/ Hsi2Rgb

SpecConvert == ConvertInit /\ [][ConvertNext]_vars

(***************************************************************************)
(* Properties of the conversions (under SpecConvert).                      *)
(***************************************************************************)
\* C13: for every RGB triple of 0..255, hsi2rgb of what rgb2hsi returns is
\* the triple again within 1 on each channel, the triples with equal
\* channels (minimum = maximum) included.
C13_RgbRoundTrip ==
    (last.op = "hsi2rgb") =>
        /\ Abs(last.ret[1] - input.red) <= FX(1)
        /\ Abs(last.ret[2] - input.green) <= FX(1)
        /\ Abs(last.ret[3] - input.blue) <= FX(1)

=============================================================================
